---- MODULE Spec2Model ----
(***************************************************************************)
(* MCP-PRIME repository toolset: signature extraction (Python and          *)
(* JavaScript/TypeScript scanners, parameter normalizers, documentation    *)
(* association) and tool-schema assembly.                                  *)
(*                                                                         *)
(* Go strings are modelled as sequences of one-character strings, so that  *)
(* strings.Split / TrimSpace / Index / HasPrefix and the regular           *)
(* expressions act on characters as they do in the program.                *)
(***************************************************************************)
EXTENDS Integers, Sequences, FiniteSets, TLC

VARIABLES call, arg, ret, pc

vars == <<call, arg, ret, pc>>

(***************************************************************************)
(* Bounds of the model.                                                    *)
(***************************************************************************)
MaxParams == 3
MaxLines == 3
MaxFunctions == 2
MaxSegments == 3
MaxExtraFiles == 2

\* the largest page size of get_file_list
MaxPerPage == 100

(***************************************************************************)
(* package strings                                                         *)
(***************************************************************************)
Range(s) == {s[i] : i \in 1..Len(s)}

\* unicode.IsSpace restricted to the characters that occur in the inputs
IsSpace(c) == c \in {" ", "\t", "\n", "\r"}

RECURSIVE TrimLeftSpace(_)
TrimLeftSpace(s) ==
    IF s # <<>> /\ IsSpace(Head(s)) THEN TrimLeftSpace(Tail(s)) ELSE s

RECURSIVE TrimRightSpace(_)
TrimRightSpace(s) ==
    IF s # <<>> /\ IsSpace(s[Len(s)])
    THEN TrimRightSpace(SubSeq(s, 1, Len(s) - 1))
    ELSE s

TrimSpace(s) == TrimRightSpace(TrimLeftSpace(s))

HasPrefix(s, p) == Len(s) >= Len(p) /\ SubSeq(s, 1, Len(p)) = p

HasSuffix(s, p) == Len(s) >= Len(p) /\ SubSeq(s, Len(s) - Len(p) + 1, Len(s)) = p

TrimSuffix(s, p) == IF HasSuffix(s, p) THEN SubSeq(s, 1, Len(s) - Len(p)) ELSE s

\* 0-based byte offset of the first occurrence of sub in s, or -1
Index(s, sub) ==
    LET hits == {i \in 0..(Len(s) - Len(sub)) : SubSeq(s, i + 1, i + Len(sub)) = sub}
    IN  IF hits = {} THEN -1 ELSE CHOOSE i \in hits : \A j \in hits : i <= j

Contains(s, sub) == Index(s, sub) >= 0

\* strings.Split(s, sep) for a one-character separator
RECURSIVE Split(_, _)
Split(s, sep) ==
    LET k == Index(s, <<sep>>)
    IN  IF k < 0 THEN <<s>>
        ELSE <<SubSeq(s, 1, k)>> \o Split(SubSeq(s, k + 2, Len(s)), sep)

RECURSIVE Join(_, _)
Join(ss, sep) ==
    IF ss = <<>> THEN <<>>
    ELSE IF Len(ss) = 1 THEN ss[1]
    ELSE ss[1] \o sep \o Join(Tail(ss), sep)

(***************************************************************************)
(* Go maps: a function from keys to values; assignment overwrites.         *)
(***************************************************************************)
EmptyMap == [k \in {} |-> <<>>]

MapPut(m, key, val) == [k \in (DOMAIN m) \cup {key} |-> IF k = key THEN val ELSE m[k]]

(***************************************************************************)
(* Parameter normalizers                                                   *)
(***************************************************************************)
sSelf == <<"s", "e", "l", "f">>
sParameter == <<"P", "a", "r", "a", "m", "e", "t", "e", "r", " ">>

\* map[string]interface{}{"type": "string", "description": "Parameter <name>"}
PropertyEntry(paramName) ==
    [type |-> "string", description |-> sParameter \o paramName]

\* map[string]interface{}{"type": "object", "properties": properties}
SchemaOf(properties) == [isNil |-> FALSE, type |-> "object", properties |-> properties]

\* the nil map[string]interface{} (Parameters of a class record)
NilSchema == [isNil |-> TRUE, type |-> "", properties |-> EmptyMap]

\* the text before a ":" type annotation, or the whole token
StripAnnotation(param) ==
    LET idx == Index(param, <<":">>)
    IN  IF idx >= 0 THEN TrimSpace(SubSeq(param, 1, idx)) ELSE param

PySkipped_Keep(param) == param = <<>> \/ param = sSelf

\* param == "" || param == "self" ; strings.HasPrefix(param, "*")
PySkipped(param) == param = <<>> \/ param = sSelf \/ HasPrefix(param, <<"*">>)

HasDefault_Never(param) == FALSE

\* strings.Contains(param, "=")
HasDefault(param) == Contains(param, <<"=">>)

\* one iteration of the loop over paramList
PyParamStep(acc, rawParam) ==
    LET param == TrimSpace(rawParam) IN
    IF PySkipped(param) THEN acc
    ELSE
        LET paramName == StripAnnotation(param)
            hasDefault == HasDefault(param)
        IN  [required   |-> IF ~hasDefault THEN Append(acc.required, paramName)
                                          ELSE acc.required,
             properties |-> IF paramName # <<>>
                            THEN MapPut(acc.properties, paramName, PropertyEntry(paramName))
                            ELSE acc.properties]

RECURSIVE PyParamLoop(_, _)
PyParamLoop(acc, paramList) ==
    IF paramList = <<>> THEN acc
    ELSE PyParamLoop(PyParamStep(acc, Head(paramList)), Tail(paramList))

parsePythonParameters(params) ==
    IF params = <<>>
    THEN [parameters |-> SchemaOf(EmptyMap), required |-> <<>>]
    ELSE LET acc == PyParamLoop([required |-> <<>>, properties |-> EmptyMap],
                                Split(params, ","))
         IN  [parameters |-> SchemaOf(acc.properties), required |-> acc.required]

\* param == "" ; strings.HasPrefix(param, "...")
JsSkipped(param) == param = <<>> \/ HasPrefix(param, <<".", ".", ".">>)

IsOptional_Never(paramName) == FALSE

\* strings.HasSuffix(paramName, "?")
IsOptional(paramName) == HasSuffix(paramName, <<"?">>)

JsParamStep(acc, rawParam) ==
    LET param == TrimSpace(rawParam) IN
    IF JsSkipped(param) THEN acc
    ELSE
        LET stripped   == StripAnnotation(param)
            isOptional == IsOptional(stripped)
            paramName  == IF isOptional THEN TrimSuffix(stripped, <<"?">>) ELSE stripped
            hasDefault == HasDefault(param)
        IN  [required   |-> IF ~isOptional /\ ~hasDefault
                            THEN Append(acc.required, paramName)
                            ELSE acc.required,
             properties |-> IF paramName # <<>>
                            THEN MapPut(acc.properties, paramName, PropertyEntry(paramName))
                            ELSE acc.properties]

RECURSIVE JsParamLoop(_, _)
JsParamLoop(acc, paramList) ==
    IF paramList = <<>> THEN acc
    ELSE JsParamLoop(JsParamStep(acc, Head(paramList)), Tail(paramList))

parseJavaScriptParameters(params) ==
    IF params = <<>>
    THEN [parameters |-> SchemaOf(EmptyMap), required |-> <<>>]
    ELSE LET acc == JsParamLoop([required |-> <<>>, properties |-> EmptyMap],
                                Split(params, ","))
         IN  [parameters |-> SchemaOf(acc.properties), required |-> acc.required]

(***************************************************************************)
(* Regular expressions of the scanners.  Positions are 1-based; a pattern  *)
(* is matched from the start of the trimmed line ("^"), with Go's          *)
(* leftmost-first semantics: "(.*?)" ends at the first ")" after which     *)
(* the rest of the pattern matches.                                        *)
(***************************************************************************)
IsWordChar(c) ==
    c \in {"a", "b", "c", "d", "e", "f", "g", "h", "i", "j", "k", "l", "m", "n", "o",
           "p", "q", "r", "s", "t", "u", "v", "w", "x", "y", "z",
           "A", "B", "C", "D", "E", "F", "G", "H", "I", "J", "K", "L", "M", "N", "O",
           "P", "Q", "R", "S", "T", "U", "V", "W", "X", "Y", "Z",
           "0", "1", "2", "3", "4", "5", "6", "7", "8", "9", "_"}

\* the class \s
IsRegexSpace(c) == c \in {" ", "\t", "\n", "\r", "\f"}

At(s, i) == IF i \in 1..Len(s) THEN s[i] ELSE ""

LitAt(s, i, lit) == i >= 1 /\ i + Len(lit) - 1 <= Len(s) /\ SubSeq(s, i, i + Len(lit) - 1) = lit

\* \s* from position i: the position after the blanks
RECURSIVE SkipSpace(_, _)
SkipSpace(s, i) == IF IsRegexSpace(At(s, i)) THEN SkipSpace(s, i + 1) ELSE i

\* \w+ from position i: the position after the word characters
RECURSIVE WordEnd(_, _)
WordEnd(s, i) == IF IsWordChar(At(s, i)) THEN WordEnd(s, i + 1) ELSE i

\* (?:kw\s+)? at position i: the position after it
OptKeyword(s, i, kw) ==
    IF LitAt(s, i, kw) /\ IsRegexSpace(At(s, i + Len(kw)))
    THEN SkipSpace(s, i + Len(kw))
    ELSE i

\* kw\s+(\w+) at position i: [ok, name, next]
KeywordName(s, i, kw) ==
    LET j == SkipSpace(s, i + Len(kw))
        k == WordEnd(s, j)
    IN  IF LitAt(s, i, kw) /\ j > i + Len(kw) /\ k > j
        THEN [ok |-> TRUE, name |-> SubSeq(s, j, k - 1), next |-> k]
        ELSE [ok |-> FALSE, name |-> <<>>, next |-> i]

NoMatch == [ok |-> FALSE, name |-> <<>>, params |-> <<>>]

Least(S) == CHOOSE i \in S : \A j \in S : i <= j

kwDef == <<"d", "e", "f">>
kwClass == <<"c", "l", "a", "s", "s">>
kwExport == <<"e", "x", "p", "o", "r", "t">>
kwAsync == <<"a", "s", "y", "n", "c">>
kwFunction == <<"f", "u", "n", "c", "t", "i", "o", "n">>
kwConst == <<"c", "o", "n", "s", "t">>
kwAbstract == <<"a", "b", "s", "t", "r", "a", "c", "t">>

\* \s*(?:->.*?)?: at position p
PyFuncTail(s, p) ==
    LET q == SkipSpace(s, p)
    IN  \/ At(s, q) = ":"
        \/ LitAt(s, q, <<"-", ">">>) /\ \E r \in (q + 2)..Len(s) : s[r] = ":"

\* ^def\s+(\w+)\s*\((.*?)\)\s*(?:->.*?)?:
MatchPyFunc(line) ==
    LET h      == KeywordName(line, 1, kwDef)
        open   == SkipSpace(line, h.next)
        closes == {c \in (open + 1)..Len(line) : line[c] = ")" /\ PyFuncTail(line, c + 1)}
    IN  IF h.ok /\ At(line, open) = "(" /\ closes # {}
        THEN [ok |-> TRUE, name |-> h.name,
              params |-> SubSeq(line, open + 1, Least(closes) - 1)]
        ELSE NoMatch

\* ^class\s+(\w+)(?:\(.*?\))?:
MatchPyClass(line) ==
    LET h == KeywordName(line, 1, kwClass)
    IN  IF /\ h.ok
           /\ \/ At(line, h.next) = ":"
              \/ /\ At(line, h.next) = "("
                 /\ \E c \in (h.next + 1)..Len(line) : line[c] = ")" /\ At(line, c + 1) = ":"
        THEN [ok |-> TRUE, name |-> h.name, params |-> <<>>]
        ELSE NoMatch

\* ^(?:export\s+)?(?:async\s+)?function\s+(\w+)\s*\((.*?)\)(?:\s*:\s*.*?)?
MatchJsFunc(line) ==
    LET start  == OptKeyword(line, OptKeyword(line, 1, kwExport), kwAsync)
        h      == KeywordName(line, start, kwFunction)
        open   == SkipSpace(line, h.next)
        closes == {c \in (open + 1)..Len(line) : line[c] = ")"}
    IN  IF h.ok /\ At(line, open) = "(" /\ closes # {}
        THEN [ok |-> TRUE, name |-> h.name,
              params |-> SubSeq(line, open + 1, Least(closes) - 1)]
        ELSE NoMatch

\* (?:\s*:\s*.*?)?\s*=> at position p
JsArrowTail(s, p) ==
    LET q == SkipSpace(s, p)
    IN  \/ LitAt(s, q, <<"=", ">">>)
        \/ At(s, q) = ":" /\ \E r \in (q + 1)..Len(s) : LitAt(s, r, <<"=", ">">>)

\* ^(?:export\s+)?const\s+(\w+)\s*=\s*(?:async\s+)?\((.*?)\)(?:\s*:\s*.*?)?\s*=>
MatchJsArrow(line) ==
    LET h      == KeywordName(line, OptKeyword(line, 1, kwExport), kwConst)
        eq     == SkipSpace(line, h.next)
        open   == OptKeyword(line, SkipSpace(line, eq + 1), kwAsync)
        closes == {c \in (open + 1)..Len(line) : line[c] = ")" /\ JsArrowTail(line, c + 1)}
    IN  IF h.ok /\ At(line, eq) = "=" /\ At(line, open) = "(" /\ closes # {}
        THEN [ok |-> TRUE, name |-> h.name,
              params |-> SubSeq(line, open + 1, Least(closes) - 1)]
        ELSE NoMatch

\* ^(?:export\s+)?(?:abstract\s+)?class\s+(\w+)(?:\s+extends\s+\w+)?(?:\s+implements\s+.*?)?
MatchJsClass(line) ==
    LET start == OptKeyword(line, OptKeyword(line, 1, kwExport), kwAbstract)
        h     == KeywordName(line, start, kwClass)
    IN  IF h.ok THEN [ok |-> TRUE, name |-> h.name, params |-> <<>>] ELSE NoMatch

(***************************************************************************)
(* Documentation association                                               *)
(***************************************************************************)
\* strings.Trim(s, " \t")
RECURSIVE TrimBlanks(_)
TrimBlanks(s) ==
    IF s # <<>> /\ Head(s) \in {" ", "\t"} THEN TrimBlanks(Tail(s))
    ELSE IF s # <<>> /\ s[Len(s)] \in {" ", "\t"} THEN TrimBlanks(SubSeq(s, 1, Len(s) - 1))
    ELSE s

\* the loop over the lines after the opening line; i is the 0-based index
RECURSIVE PyDocLoop(_, _, _)
PyDocLoop(lines, i, quote) ==
    IF i >= Len(lines) THEN <<>>
    ELSE LET line == lines[i + 1] IN
         IF Contains(line, quote)
         THEN LET endIdx == Index(line, quote)
              IN  IF endIdx > 0 THEN <<SubSeq(line, 1, endIdx)>> ELSE <<>>
         ELSE <<line>> \o PyDocLoop(lines, i + 1, quote)

extractPythonDocstring(lines, startLine) ==
    IF startLine >= Len(lines) THEN <<>>
    ELSE LET line == TrimSpace(lines[startLine + 1]) IN
         IF HasPrefix(line, <<"\"", "\"", "\"">>) \/ HasPrefix(line, <<"'", "'", "'">>)
         THEN LET quote == SubSeq(line, 1, 3) IN
              IF Len(line) > 6 /\ HasSuffix(line, quote)
              THEN TrimBlanks(SubSeq(line, 4, Len(line) - 3))
              ELSE LET first == IF Len(line) > 3 THEN <<SubSeq(line, 4, Len(line))>>
                                ELSE <<>>
                   IN  TrimSpace(Join(first \o PyDocLoop(lines, startLine + 1, quote),
                                      <<"\n">>))
         ELSE <<>>

\* the backward loop; i is the 0-based index of the line looked at
RECURSIVE JSDocLoop(_, _, _)
JSDocLoop(lines, i, commentLines) ==
    IF i < 0 THEN commentLines
    ELSE LET line == TrimSpace(lines[i + 1]) IN
         IF line = <<>> THEN JSDocLoop(lines, i - 1, commentLines)
         ELSE IF HasPrefix(line, <<"*", "/">>) THEN JSDocLoop(lines, i - 1, commentLines)
         ELSE IF HasPrefix(line, <<"*">>)
              THEN LET content == TrimSpace(SubSeq(line, 2, Len(line)))
                   IN  JSDocLoop(lines, i - 1,
                                 IF content # <<>> THEN <<content>> \o commentLines
                                 ELSE commentLines)
         ELSE IF HasPrefix(line, <<"/", "*", "*">>)
              THEN LET content == TrimSpace(SubSeq(line, 4, Len(line)))
                   IN  IF content # <<>> /\ ~HasSuffix(content, <<"*", "/">>)
                       THEN <<content>> \o commentLines
                       ELSE commentLines
         ELSE commentLines

extractJSDocComment(lines, lineNum) ==
    Join(JSDocLoop(lines, lineNum - 1, <<>>), <<" ">>)

(***************************************************************************)
(* Declaration scanners                                                    *)
(***************************************************************************)
IsPrivate_Never(name) == FALSE

\* strings.HasPrefix(name, "_")
IsPrivate(name) == HasPrefix(name, <<"_">>)

FunctionRecord(name, line, description, parsed) ==
    [name |-> name, type |-> "function", signature |-> line,
     description |-> description,
     parameters |-> parsed.parameters, required |-> parsed.required]

ClassRecord(name, line, description) ==
    [name |-> name, type |-> "class", signature |-> line,
     description |-> description,
     parameters |-> NilSchema, required |-> <<>>]

\* the body of the loop of extractPythonSignatures for the line of 0-based
\* index i: the records it appends ("continue" leaves the body)
PyScanLine(lines, i) ==
    LET line == TrimSpace(lines[i + 1])
        fm   == MatchPyFunc(line)
        cm   == MatchPyClass(line)
        funcs == IF fm.ok
                 THEN <<FunctionRecord(fm.name, line, extractPythonDocstring(lines, i + 1),
                                       parsePythonParameters(fm.params))>>
                 ELSE <<>>
        classes == IF cm.ok /\ ~IsPrivate(cm.name)
                   THEN <<ClassRecord(cm.name, line, extractPythonDocstring(lines, i + 1))>>
                   ELSE <<>>
    IN  IF fm.ok /\ IsPrivate(fm.name) THEN <<>> ELSE funcs \o classes

RECURSIVE PyScanFrom(_, _)
PyScanFrom(lines, i) ==
    IF i >= Len(lines) THEN <<>> ELSE PyScanLine(lines, i) \o PyScanFrom(lines, i + 1)

extractPythonSignatures_Reversed(code) ==
    LET found == PyScanFrom(Split(code, "\n"), 0)
    IN  [i \in 1..Len(found) |-> found[Len(found) + 1 - i]]

extractPythonSignatures(code) == PyScanFrom(Split(code, "\n"), 0)

\* the body of the loop of extractJavaScriptSignatures for the line of 0-based
\* index i
JsScanLine(lines, i) ==
    LET line == TrimSpace(lines[i + 1])
        fm   == MatchJsFunc(line)
        am   == MatchJsArrow(line)
        cm   == MatchJsClass(line)
        funcs == IF fm.ok
                 THEN <<FunctionRecord(fm.name, line, extractJSDocComment(lines, i),
                                       parseJavaScriptParameters(fm.params))>>
                 ELSE <<>>
        arrows == IF am.ok
                  THEN <<FunctionRecord(am.name, line, extractJSDocComment(lines, i),
                                        parseJavaScriptParameters(am.params))>>
                  ELSE <<>>
        classes == IF cm.ok /\ ~IsPrivate(cm.name)
                   THEN <<ClassRecord(cm.name, line, extractJSDocComment(lines, i))>>
                   ELSE <<>>
    IN  IF fm.ok /\ IsPrivate(fm.name) THEN <<>>
        ELSE IF am.ok /\ IsPrivate(am.name) THEN funcs
        ELSE funcs \o arrows \o classes

RECURSIVE JsScanFrom(_, _)
JsScanFrom(lines, i) ==
    IF i >= Len(lines) THEN <<>> ELSE JsScanLine(lines, i) \o JsScanFrom(lines, i + 1)

extractJavaScriptSignatures(code) == JsScanFrom(Split(code, "\n"), 0)

(***************************************************************************)
(* Tool handlers: parameter helpers and results                            *)
(***************************************************************************)
\* a request argument: absent, or a JSON value of some kind
AbsentArg(zero) == [kind |-> "absent", val |-> zero]
StringArg(v) == [kind |-> "string", val |-> v]
NumberArg(zero) == [kind |-> "number", val |-> zero]

\* RequiredParam[string]: err is "" when the parameter is returned
RequiredParam(a, zero) ==
    IF a.kind = "absent" THEN [err |-> "missing required parameter", val |-> zero]
    ELSE IF a.kind # "string" THEN [err |-> "parameter is not of type", val |-> zero]
    ELSE IF a.val = zero THEN [err |-> "missing required parameter", val |-> zero]
    ELSE [err |-> "", val |-> a.val]

\* mcp.NewToolResultError(fmt.Sprintf("<text>: %s", value))
ToolResultError(text, value) ==
    [isError |-> TRUE, message |-> [text |-> text, value |-> value],
     isNull |-> FALSE, signatures |-> <<>>]

\* mcp.NewToolResultText(json.MarshalIndent(signatures)): a nil slice is
\* marshalled as null, a non-empty one as the array of its records
ToolResultSignatures(signatures) ==
    [isError |-> FALSE, message |-> [text |-> "", value |-> ""],
     isNull |-> signatures = <<>>, signatures |-> signatures]

\* case "python":
DispatchesPython(language) == language = "python"

\* case "javascript", "typescript":
DispatchesJavaScript(language) == language \in {"javascript", "typescript"}

handleExtractSignatures(args) ==
    LET code == RequiredParam(args.code, <<>>) IN
    IF code.err # "" THEN ToolResultError(code.err, "code")
    ELSE
        LET language == RequiredParam(args.language, "") IN
        IF language.err # "" THEN ToolResultError(language.err, "language")
        ELSE IF DispatchesPython(language.val)
             THEN ToolResultSignatures(extractPythonSignatures(code.val))
        ELSE IF DispatchesJavaScript(language.val)
             THEN ToolResultSignatures(extractJavaScriptSignatures(code.val))
        ELSE ToolResultError("unsupported language", language.val)

(***************************************************************************)
(* Inputs of extract_signatures: source texts of up to MaxLines lines      *)
(* joined with "\n", and language tags.                                    *)
(***************************************************************************)
PyLines ==
    { \* def f(a, b=1):
      <<"d", "e", "f", " ", "f", "(", "a", ",", " ", "b", "=", "1", ")", ":">>,
      \* def _p(a):
      <<"d", "e", "f", " ", "_", "p", "(", "a", ")", ":">>,
      \* def __i(self):
      <<"d", "e", "f", " ", "_", "_", "i", "(", "s", "e", "l", "f", ")", ":">>,
      \*     def g(self, *r) -> T:
      <<" ", " ", " ", " ", "d", "e", "f", " ", "g", "(", "s", "e", "l", "f", ",", " ", "*", "r", ")", " ", "-", ">", " ", "T", ":">>,
      \* class C:
      <<"c", "l", "a", "s", "s", " ", "C", ":">>,
      \* class _D(B):
      <<"c", "l", "a", "s", "s", " ", "_", "D", "(", "B", ")", ":">>,
      \*     """Doc."""
      <<" ", " ", " ", " ", "\"", "\"", "\"", "D", "o", "c", ".", "\"", "\"", "\"">>,
      \*     """Doc.""" # c
      <<" ", " ", " ", " ", "\"", "\"", "\"", "D", "o", "c", ".", "\"", "\"", "\"", " ", "#", " ", "c">>,
      \* '''Open
      <<"'", "'", "'", "O", "p", "e", "n">>,
      \* (blank line)
      <<>>,
      \* x = 1
      <<"x", " ", "=", " ", "1">>,
      \* def h(a
      <<"d", "e", "f", " ", "h", "(", "a">> }

JsLines ==
    { \* function f(a, b) {
      <<"f", "u", "n", "c", "t", "i", "o", "n", " ", "f", "(", "a", ",", " ", "b", ")", " ", "{">>,
      \* export async function g(a?: T, ...r): T {
      <<"e", "x", "p", "o", "r", "t", " ", "a", "s", "y", "n", "c", " ", "f", "u", "n", "c", "t", "i", "o", "n", " ", "g", "(", "a", "?", ":", " ", "T", ",", " ", ".", ".", ".", "r", ")", ":", " ", "T", " ", "{">>,
      \* function _p() {}
      <<"f", "u", "n", "c", "t", "i", "o", "n", " ", "_", "p", "(", ")", " ", "{", "}">>,
      \* export const d = (a, b = 1) => a / b;
      <<"e", "x", "p", "o", "r", "t", " ", "c", "o", "n", "s", "t", " ", "d", " ", "=", " ", "(", "a", ",", " ", "b", " ", "=", " ", "1", ")", " ", "=", ">", " ", "a", " ", "/", " ", "b", ";">>,
      \* const _q = async (x) => x;
      <<"c", "o", "n", "s", "t", " ", "_", "q", " ", "=", " ", "a", "s", "y", "n", "c", " ", "(", "x", ")", " ", "=", ">", " ", "x", ";">>,
      \* class K extends B {
      <<"c", "l", "a", "s", "s", " ", "K", " ", "e", "x", "t", "e", "n", "d", "s", " ", "B", " ", "{">>,
      \* export abstract class _L {
      <<"e", "x", "p", "o", "r", "t", " ", "a", "b", "s", "t", "r", "a", "c", "t", " ", "c", "l", "a", "s", "s", " ", "_", "L", " ", "{">>,
      \* /** One. */
      <<"/", "*", "*", " ", "O", "n", "e", ".", " ", "*", "/">>,
      \*  * Adds.
      <<" ", "*", " ", "A", "d", "d", "s", ".">>,
      \* /**
      <<"/", "*", "*">>,
      \* (blank line)
      <<>>,
      \* x = 1;
      <<"x", " ", "=", " ", "1", ";">>,
      \* function h(a
      <<"f", "u", "n", "c", "t", "i", "o", "n", " ", "h", "(", "a">> }

LineLists(lineSet) == UNION {[1..n -> lineSet] : n \in 1..MaxLines}

SourceTexts(lineSet) == {Join(ls, <<"\n">>) : ls \in LineLists(lineSet)}

CodeInputs == SourceTexts(PyLines) \cup SourceTexts(JsLines)

CodeArgs == {AbsentArg(<<>>)} \cup {StringArg(c) : c \in CodeInputs}

LanguageArgs ==
    {AbsentArg(""), NumberArg("")}
        \cup {StringArg(l) : l \in {"", "python", "javascript", "typescript", "Python", "ruby"}}

(***************************************************************************)
(* emit_tool_json                                                          *)
(***************************************************************************)
\* a field of a JSON object of the "functions" array: absent, or a value
AbsentField == [kind |-> "absent", val |-> ""]
Field(kind, val) == [kind |-> kind, val |-> val]

\* the nil map / a decoded JSON object
NilMap == [isNil |-> TRUE, val |-> ""]
ObjectMap(val) == [isNil |-> FALSE, val |-> val]

\* json.Unmarshal of one element into a FunctionDescriptor: an absent or null
\* field leaves the zero value, a value of the wrong JSON kind is an error
DecodeString(f) == IF f.kind = "string" THEN f.val ELSE ""

DecodeMap(f) == IF f.kind = "object" THEN ObjectMap(f.val) ELSE NilMap

DecodeError(e) ==
    \/ e.name.kind \notin {"absent", "string"}
    \/ e.description.kind \notin {"absent", "string"}
    \/ e.parameters.kind \notin {"absent", "object"}
    \/ e.required.kind \notin {"absent", "array"}

FunctionDescriptor(e) ==
    [Name |-> DecodeString(e.name), Description |-> DecodeString(e.description),
     Parameters |-> DecodeMap(e.parameters),
     Required |-> IF e.required.kind = "array" THEN e.required.val ELSE ""]

\* json.Marshal then json.Unmarshal into []FunctionDescriptor
UnmarshalFunctions(functionsParam) ==
    IF functionsParam.kind = "null" THEN [err |-> FALSE, functions |-> <<>>]
    ELSE IF functionsParam.kind # "array" THEN [err |-> TRUE, functions |-> <<>>]
    ELSE IF \E i \in 1..Len(functionsParam.items) : DecodeError(functionsParam.items[i])
         THEN [err |-> TRUE, functions |-> <<>>]
    ELSE [err |-> FALSE,
          functions |-> [i \in 1..Len(functionsParam.items) |->
                            FunctionDescriptor(functionsParam.items[i])]]

\* ToolDefinition{Type: "function", Function: FunctionDef{...}}
ToolDefinition(fn) ==
    [type |-> "function",
     function |-> [name |-> fn.Name, description |-> fn.Description,
                   parameters |-> fn.Parameters]]

BuildTools_Reversed(functions) ==
    [i \in 1..Len(functions) |-> ToolDefinition(functions[Len(functions) + 1 - i])]

\* tools[i] = ToolDefinition{...} for i, fn := range functions
BuildTools(functions) == [i \in 1..Len(functions) |-> ToolDefinition(functions[i])]

IsEmptyInput_Never(functions) == FALSE

\* len(functions) == 0
IsEmptyInput(functions) == Len(functions) = 0

EmitError(text) == [isError |-> TRUE, message |-> text, tools |-> <<>>]

EmitResult(tools) == [isError |-> FALSE, message |-> "", tools |-> tools]

handleEmitToolJSON(args) ==
    IF args.functions.kind = "absent" THEN EmitError("functions parameter is required")
    ELSE
        LET decoded == UnmarshalFunctions(args.functions) IN
        IF decoded.err THEN EmitError("failed to unmarshal functions")
        ELSE IF IsEmptyInput(decoded.functions)
             THEN EmitError("functions parameter cannot be empty")
        ELSE EmitResult(BuildTools(decoded.functions))

(***************************************************************************)
(* Inputs of emit_tool_json: arrays of up to MaxFunctions JSON objects     *)
(* whose fields may be absent or of the wrong kind.                        *)
(***************************************************************************)
DescriptorObjects ==
    [name        : {AbsentField, Field("string", "f"), Field("string", "g"),
                    Field("number", "7")},
     description : {AbsentField, Field("string", "d")},
     parameters  : {AbsentField, Field("object", "P")},
     required    : {AbsentField, Field("array", "R")}]

FunctionsArgs ==
    {[kind |-> "absent", items |-> <<>>],
     [kind |-> "null", items |-> <<>>],
     [kind |-> "string", items |-> <<>>]}
        \cup {[kind |-> "array", items |-> fs] :
                 fs \in UNION {[1..n -> DescriptorObjects] : n \in 0..MaxFunctions}}

(***************************************************************************)
(* Inputs of the parameter normalizers: raw parameter strings built by     *)
(* joining up to MaxParams tokens with commas.                             *)
(***************************************************************************)
PyTokens ==
    { <<"a">>,
      <<" ", "b">>,
      sSelf,
      <<"a", ":", " ", "T">>,
      <<"b", "=", "1">>,
      <<" ", "c", ":", " ", "T", " ", "=", " ", "1">>,
      <<"*", "r">>,
      <<" ", "*", "*", "k">>,
      <<":", " ", "T">>,
      <<>> }

JsTokens ==
    { <<"a">>,
      <<" ", "b">>,
      <<"a", "?">>,
      <<"b", "?", ":", " ", "T">>,
      <<"c", " ", "=", " ", "1">>,
      <<"a", ":", " ", "T">>,
      <<"c", " ", "?", ":", " ", "T">>,
      <<".", ".", ".", "r">>,
      <<":", " ", "T">>,
      <<>> }

TokenLists(tokens) == UNION {[1..n -> tokens] : n \in 0..MaxParams}

ParamStrings(tokens) == {Join(ts, <<",">>) : ts \in TokenLists(tokens)}

PyParamInputs == ParamStrings(PyTokens)
JsParamInputs == ParamStrings(JsTokens)

(***************************************************************************)
(* Specification of the parameter normalizers.  The functions are pure:    *)
(* the initial state holds the raw parameter string of one call, and the   *)
(* call's action runs the normalizer on it.                                *)
(***************************************************************************)
NoRet == [parameters |-> NilSchema, required |-> <<>>]

InitParams ==
    /\ pc = "ready"
    /\ \/ call = "parsePythonParameters" /\ arg \in [params : PyParamInputs]
       \/ call = "parseJavaScriptParameters" /\ arg \in [params : JsParamInputs]
    /\ ret = NoRet

CallParsePythonParameters ==
    /\ pc = "ready"
    /\ call = "parsePythonParameters"
    /\ ret' = parsePythonParameters(arg.params)
    /\ pc' = "done"
    /\ UNCHANGED <<call, arg>>

CallParseJavaScriptParameters ==
    /\ pc = "ready"
    /\ call = "parseJavaScriptParameters"
    /\ ret' = parseJavaScriptParameters(arg.params)
    /\ pc' = "done"
    /\ UNCHANGED <<call, arg>>

NextParams == CallParsePythonParameters \/ CallParseJavaScriptParameters

SpecParams == InitParams /\ [][NextParams]_vars

(***************************************************************************)
(* Properties of the parameter normalizers                                 *)
(***************************************************************************)
Done(op) == pc = "done" /\ call = op

\* the comma-split tokens of a raw parameter string, each trimmed
TrimmedTokens(params) ==
    LET raw == Split(params, ",") IN [i \in 1..Len(raw) |-> TrimSpace(raw[i])]

PyVariadicToken(t) == t # <<>> /\ t[1] = "*"
JsVariadicToken(t) == Len(t) >= 3 /\ t[1] = "." /\ t[2] = "." /\ t[3] = "."

PyRetainedToken(t) == t # <<>> /\ t # sSelf /\ ~PyVariadicToken(t)
JsRetainedToken(t) == t # <<>> /\ ~JsVariadicToken(t)

\* the part of a token in front of its ":" annotation, without surrounding blanks
BeforeAnnotation(t) ==
    LET colons == {i \in 1..Len(t) : t[i] = ":"}
        cut    == IF colons = {} THEN Len(t)
                  ELSE (CHOOSE i \in colons : \A j \in colons : i <= j) - 1
    IN  TrimSpace(SubSeq(t, 1, cut))

MarkedOptional(t) ==
    LET n == BeforeAnnotation(t) IN n # <<>> /\ n[Len(n)] = "?"

HasEquals(t) == "=" \in Range(t)

PyRequiredToken(t) == PyRetainedToken(t) /\ ~HasEquals(t)
JsRequiredToken(t) == JsRetainedToken(t) /\ ~MarkedOptional(t) /\ ~HasEquals(t)

NamesOf(tokens) == [i \in 1..Len(tokens) |-> BeforeAnnotation(tokens[i])]

\* C2: parsePythonParameters returns as requiredParameters exactly the names,
\* in the order of the comma split, of the retained tokens (non-empty, not
\* "self", not starting with "*") that contain no "="; it is empty when every
\* retained token carries a default value.
C2_PyRequiredExact ==
    Done("parsePythonParameters") =>
        LET toks == TrimmedTokens(arg.params) IN
        /\ ret.required = NamesOf(SelectSeq(toks, PyRequiredToken))
        /\ (\A i \in 1..Len(toks) : PyRetainedToken(toks[i]) => HasEquals(toks[i]))
               => ret.required = <<>>

C2_Witness ==
    /\ Done("parsePythonParameters")
    /\ Len(ret.required) = 2
    /\ ret.required[1] # ret.required[2]
    /\ \E i \in 1..Len(TrimmedTokens(arg.params)) :
           LET t == TrimmedTokens(arg.params)[i] IN PyRetainedToken(t) /\ HasEquals(t)

\* C3: parseJavaScriptParameters returns as requiredParameters exactly the
\* names, in the order of the comma split, of the retained tokens (non-empty,
\* not starting with "...") that are neither marked optional by a trailing "?"
\* on the name nor contain "=".
C3_JsRequiredExact ==
    Done("parseJavaScriptParameters") =>
        ret.required = NamesOf(SelectSeq(TrimmedTokens(arg.params), JsRequiredToken))

C3_Witness ==
    /\ Done("parseJavaScriptParameters")
    /\ Len(ret.required) = 1
    /\ \E i, j \in 1..Len(TrimmedTokens(arg.params)) :
           LET t == TrimmedTokens(arg.params) IN
           /\ JsRetainedToken(t[i]) /\ MarkedOptional(t[i]) /\ ~HasEquals(t[i])
           /\ JsRetainedToken(t[j]) /\ HasEquals(t[j]) /\ ~MarkedOptional(t[j])

\* the name a variadic token declares: the token without its marker
RECURSIVE DropMarker(_)
DropMarker(t) ==
    IF t # <<>> /\ t[1] \in {"*", "."} THEN DropMarker(Tail(t)) ELSE TrimSpace(t)

IsVariadicFor(op, t) ==
    IF op = "parsePythonParameters" THEN PyVariadicToken(t) ELSE JsVariadicToken(t)

NormalizerFor(op, params) ==
    IF op = "parsePythonParameters" THEN parsePythonParameters(params)
    ELSE parseJavaScriptParameters(params)

\* the raw parameter string without its variadic tokens
WithoutVariadic(op, params) ==
    LET raw  == Split(params, ",")
        keep == {i \in 1..Len(raw) : ~IsVariadicFor(op, TrimSpace(raw[i]))}
        RECURSIVE Pick(_)
        Pick(i) == IF i > Len(raw) THEN <<>>
                   ELSE IF i \in keep THEN <<raw[i]>> \o Pick(i + 1) ELSE Pick(i + 1)
    IN  Join(Pick(1), <<",">>)

HasVariadic(op, params) ==
    \E i \in 1..Len(TrimmedTokens(params)) : IsVariadicFor(op, TrimmedTokens(params)[i])

\* C4: a variadic token (Python "*..."/"**...", JS/TS "...") is neither a key
\* of properties nor an element of requiredParameters, under its text or under
\* the name it declares, and the result equals the result for the list without
\* the variadic tokens.
C4_VariadicExcluded ==
    (pc = "done" /\ HasVariadic(call, arg.params)) =>
        LET toks  == TrimmedTokens(arg.params)
            props == DOMAIN ret.parameters.properties
            req   == Range(ret.required)
        IN  /\ \A i \in 1..Len(toks) :
                   IsVariadicFor(call, toks[i]) =>
                       /\ toks[i] \notin props \cup req
                       /\ DropMarker(toks[i]) \notin props \cup req
            /\ \A n \in props \cup req : ~IsVariadicFor(call, n)
            /\ ret = NormalizerFor(call, WithoutVariadic(call, arg.params))

C4_Witness ==
    /\ pc = "done"
    /\ HasVariadic(call, arg.params)
    /\ Len(ret.required) >= 1
    /\ Cardinality(DOMAIN ret.parameters.properties) >= 2

\* the identifier a token starts with
RECURSIVE Identifier(_)
Identifier(t) ==
    IF t # <<>> /\ IsWordChar(t[1]) THEN <<t[1]>> \o Identifier(Tail(t)) ELSE <<>>

RetainedFor(op, t) ==
    IF op = "parsePythonParameters" THEN PyRetainedToken(t) ELSE JsRetainedToken(t)

RetainedNames(op, params) ==
    {Identifier(TrimmedTokens(params)[i]) :
        i \in {j \in 1..Len(TrimmedTokens(params)) :
                  /\ RetainedFor(op, TrimmedTokens(params)[j])
                  /\ Identifier(TrimmedTokens(params)[j]) # <<>>}}

\* C5: every retained token that declares a parameter appears in properties
\* under its identifier alone (no annotation, default text, "?" or blanks),
\* mapped to {type: "string", description: "Parameter <name>"}, and there are
\* as many keys as distinct retained names.
C5_PropertiesByIdentifier ==
    pc = "done" =>
        LET names == RetainedNames(call, arg.params)
            props == ret.parameters.properties
        IN  /\ \A n \in names :
                   /\ n \in DOMAIN props
                   /\ props[n] = [type |-> "string", description |-> sParameter \o n]
            /\ Cardinality(DOMAIN props) = Cardinality(names)

(***************************************************************************)
(* Specification of extract_signatures: the initial state holds the        *)
(* arguments of one request, the handler's action answers it.              *)
(***************************************************************************)
InitExtract ==
    /\ pc = "ready"
    /\ call = "extract_signatures"
    /\ arg \in [code : CodeArgs, language : LanguageArgs]
    /\ ret = ToolResultSignatures(<<>>)

HandleExtractSignatures ==
    /\ pc = "ready"
    /\ call = "extract_signatures"
    /\ ret' = handleExtractSignatures(arg)
    /\ pc' = "done"
    /\ UNCHANGED <<call, arg>>

NextExtract == HandleExtractSignatures

SpecExtract == InitExtract /\ [][NextExtract]_vars

(***************************************************************************)
(* Specification of emit_tool_json                                         *)
(***************************************************************************)
InitEmit ==
    /\ pc = "ready"
    /\ call = "emit_tool_json"
    /\ arg \in [functions : FunctionsArgs]
    /\ ret = EmitResult(<<>>)

HandleEmitToolJSON ==
    /\ pc = "ready"
    /\ call = "emit_tool_json"
    /\ ret' = handleEmitToolJSON(arg)
    /\ pc' = "done"
    /\ UNCHANGED <<call, arg>>

NextEmit == HandleEmitToolJSON

SpecEmit == InitEmit /\ [][NextEmit]_vars

(***************************************************************************)
(* Properties of extract_signatures                                        *)
(***************************************************************************)
DeclarationKeywords == {kwDef, kwClass, kwFunction, kwConst}

\* a line that declares, after one of the declaration keywords, an identifier
\* starting with "_"
PrivateHeaderLine(line) ==
    \E i \in 2..Len(line) :
        /\ line[i] = "_"
        /\ IsRegexSpace(line[i - 1])
        /\ \E kw \in DeclarationKeywords :
               HasSuffix(TrimSpace(SubSeq(line, 1, i - 1)), kw)

SourceLines(code) == Split(code, "\n")

\* C1: no record returned by either scanner has a name starting with "_", and
\* a header line whose identifier starts with "_" produces no record.
C1_PrivacyFilterTotal ==
    (Done("extract_signatures") /\ ~ret.isError) =>
        \A i \in 1..Len(ret.signatures) :
            /\ ret.signatures[i].name # <<>>
            /\ ret.signatures[i].name[1] # "_"
            /\ ~PrivateHeaderLine(ret.signatures[i].signature)

C1_Witness ==
    /\ Done("extract_signatures")
    /\ ~ret.isError
    /\ Len(ret.signatures) = 1
    /\ Len(SourceLines(arg.code.val)) = 2
    /\ \E i \in 1..2 : PrivateHeaderLine(SourceLines(arg.code.val)[i])

SupportedLanguages == {"python", "javascript", "typescript"}

\* C6: extract(code, language) gives the Python scanner's records iff language
\* is "python", the JavaScript/TypeScript scanner's records for "javascript"
\* and for "typescript", and for every other language value fails with an
\* unsupported-language error naming the value, with no records.
C6_FacadeDispatch ==
    (Done("extract_signatures") /\ arg.code.kind = "string"
                                /\ arg.language.kind = "string") =>
        LET code     == arg.code.val
            language == arg.language.val
        IN  /\ language = "python" =>
                   ~ret.isError /\ ret.signatures = extractPythonSignatures(code)
            /\ language \in {"javascript", "typescript"} =>
                   ~ret.isError /\ ret.signatures = extractJavaScriptSignatures(code)
            /\ language \notin SupportedLanguages =>
                   /\ ret.isError
                   /\ ret.message = [text |-> "unsupported language", value |-> language]
                   /\ ret.signatures = <<>>

\* C7: with a supported language tag extraction never fails, whatever the
\* source text (the empty text included).
C7_NeverFailsOnSupportedLanguage ==
    (Done("extract_signatures") /\ arg.code.kind = "string"
                                /\ arg.language.kind = "string"
                                /\ arg.language.val \in SupportedLanguages) =>
        ~ret.isError

(***************************************************************************)
(* Properties of emit_tool_json                                            *)
(***************************************************************************)
\* an element that is a FunctionDescriptor: name, description and parameters
\* present with their JSON kinds
WellFormedDescriptor(e) ==
    /\ e.name.kind = "string"
    /\ e.description.kind = "string"
    /\ e.parameters.kind = "object"
    /\ e.required.kind \in {"absent", "array"}

\* C8: for a non-empty sequence of FunctionDescriptors the output has the same
\* length and its n-th element is {type: "function", function: {name,
\* description, parameters}} of the n-th descriptor, unchanged, without
\* "required".
C8_AssemblerOneToOne ==
    (/\ Done("emit_tool_json")
     /\ arg.functions.kind = "array"
     /\ arg.functions.items # <<>>
     /\ \A i \in 1..Len(arg.functions.items) : WellFormedDescriptor(arg.functions.items[i]))
    =>
        LET items == arg.functions.items IN
        /\ ~ret.isError
        /\ Len(ret.tools) = Len(items)
        /\ \A n \in 1..Len(items) :
               ret.tools[n] =
                   [type |-> "function",
                    function |-> [name |-> items[n].name.val,
                                  description |-> items[n].description.val,
                                  parameters |-> [isNil |-> FALSE,
                                                  val |-> items[n].parameters.val]]]

C8_Witness ==
    /\ Done("emit_tool_json")
    /\ arg.functions.kind = "array"
    /\ Len(arg.functions.items) = 2
    /\ \A i \in 1..2 : WellFormedDescriptor(arg.functions.items[i])
    /\ arg.functions.items[1].name.val # arg.functions.items[2].name.val
    /\ arg.functions.items[1].required.kind = "array"
    /\ Len(ret.tools) = 2

\* C9: given zero descriptors the Assembler fails with the empty-input error
\* and returns no ToolDefinition array.
C9_EmptyInputFails ==
    (Done("emit_tool_json") /\ arg.functions.kind = "array"
                            /\ arg.functions.items = <<>>) =>
        /\ ret.isError
        /\ ret.message = "functions parameter cannot be empty"
        /\ ret.tools = <<>>

C9_Witness ==
    /\ Done("emit_tool_json")
    /\ arg.functions.kind = "array"
    /\ arg.functions.items = <<>>
    /\ ret.isError

\* C10: when an element of the input lacks "name" the Assembler fails and
\* returns no ToolDefinition for any element.
C10_MissingNameAborts ==
    (/\ Done("emit_tool_json")
     /\ arg.functions.kind = "array"
     /\ \E i \in 1..Len(arg.functions.items) : arg.functions.items[i].name.kind = "absent")
    =>
        ret.isError /\ ret.tools = <<>>

(***************************************************************************)
(* get_file_content                                                        *)
(***************************************************************************)
\* the elements of a slash-separated path that filepath.Clean keeps or acts on
PathElements(path) == SelectSeq(Split(path, "/"), LAMBDA e : e # <<>> /\ e # <<".">>)

\* filepath.Clean of a rooted path: ".." removes the element before it, and
\* is dropped at the root
RECURSIVE CleanElements(_, _)
CleanElements(done, elems) ==
    IF elems = <<>> THEN done
    ELSE IF Head(elems) = <<".", ".">>
         THEN CleanElements(IF done = <<>> THEN done ELSE SubSeq(done, 1, Len(done) - 1),
                            Tail(elems))
    ELSE CleanElements(Append(done, Head(elems)), Tail(elems))

CleanRooted(path) == <<"/">> \o Join(CleanElements(<<>>, PathElements(path)), <<"/">>)

\* filepath.Join(repoRoot, path)
FilepathJoin(repoRoot, path) == CleanRooted(repoRoot \o <<"/">> \o path)

\* filepath.Abs of an absolute path
FilepathAbs(path) == CleanRooted(path)

\* the regular files of the file system
Files ==
    { \* /w/a/f
      <<"/", "w", "/", "a", "/", "f">>,
      \* /w/a/d/f
      <<"/", "w", "/", "a", "/", "d", "/", "f">>,
      \* /w/ab/f
      <<"/", "w", "/", "a", "b", "/", "f">>,
      \* /w/f
      <<"/", "w", "/", "f">> }

FileError(text) == [isError |-> TRUE, message |-> text, content |-> <<>>]

\* the content of a file is modelled by the path of the file read
FileContent(path) == [isError |-> FALSE, message |-> "", content |-> path]

\* strings.HasPrefix(cleanPath, cleanRepoRoot)
WithinBounds(cleanPath, cleanRepoRoot) == HasPrefix(cleanPath, cleanRepoRoot)

handleGetFileContent(args) ==
    LET path == RequiredParam(args.path, <<>>) IN
    IF path.err # "" THEN FileError(path.err)
    ELSE
        LET fullPath      == FilepathJoin(args.cwd, path.val)
            cleanPath     == FilepathAbs(fullPath)
            cleanRepoRoot == FilepathAbs(args.cwd)
        IN  IF ~WithinBounds(cleanPath, cleanRepoRoot)
            THEN FileError("path is outside repository bounds")
            ELSE IF cleanPath \notin Files THEN FileError("failed to read file")
            ELSE FileContent(cleanPath)

(***************************************************************************)
(* Inputs of get_file_content: the working directory and relative paths of *)
(* up to MaxSegments elements.                                             *)
(***************************************************************************)
WorkingDirectories ==
    { \* /w/a
      <<"/", "w", "/", "a">>,
      \* /w
      <<"/", "w">> }

PathSegments ==
    { <<".", ".">>, <<".">>, <<"a">>, <<"a", "b">>, <<"d">>, <<"f">> }

RelativePaths ==
    {Join(segs, <<"/">>) : segs \in UNION {[1..n -> PathSegments] : n \in 0..MaxSegments}}

PathArgs == {AbsentArg(<<>>)} \cup {StringArg(p) : p \in RelativePaths}

InitFile ==
    /\ pc = "ready"
    /\ call = "get_file_content"
    /\ arg \in [path : PathArgs, cwd : WorkingDirectories]
    /\ ret = FileError("")

HandleGetFileContent ==
    /\ pc = "ready"
    /\ call = "get_file_content"
    /\ ret' = handleGetFileContent(arg)
    /\ pc' = "done"
    /\ UNCHANGED <<call, arg>>

NextFile == HandleGetFileContent

SpecFile == InitFile /\ [][NextFile]_vars

\* the directories and file name of a path, element by element
ElementsOf(path) == SelectSeq(Split(path, "/"), LAMBDA e : e # <<>>)

\* the path is the root or lies below it
IsRootOrDescendant(path, root) ==
    LET pe == ElementsOf(path)
        re == ElementsOf(root)
    IN  Len(pe) >= Len(re) /\ SubSeq(pe, 1, Len(re)) = re

\* the path the request resolves to: the root followed by the requested
\* elements, "." ignored and ".." stepping to the parent
RECURSIVE Resolve(_, _)
Resolve(at, elems) ==
    IF elems = <<>> THEN at
    ELSE IF Head(elems) = <<".">> THEN Resolve(at, Tail(elems))
    ELSE IF Head(elems) = <<".", ".">>
         THEN Resolve(IF at = <<>> THEN at ELSE SubSeq(at, 1, Len(at) - 1), Tail(elems))
    ELSE Resolve(Append(at, Head(elems)), Tail(elems))

ResolvedPath(root, path) ==
    <<"/">> \o Join(Resolve(ElementsOf(root), ElementsOf(path)), <<"/">>)

\* C11: whenever the resolved path is neither the root nor a descendant of the
\* root (a sibling directory whose name starts with the root's name included),
\* the read is refused with an error; no file outside the root is read.
C11_ReadsStayInsideRoot ==
    (Done("get_file_content") /\ arg.path.kind = "string") =>
        /\ ~IsRootOrDescendant(ResolvedPath(arg.cwd, arg.path.val), arg.cwd)
               => ret.isError /\ ret.content = <<>>
        /\ ~ret.isError => IsRootOrDescendant(ret.content, arg.cwd)

(***************************************************************************)
(* get_file_list                                                           *)
(*                                                                         *)
(* JSON numbers arrive as float64.  A number is modelled by twice its      *)
(* value, so that halves (0.5, 1.5, ...) are inputs too.                   *)
(***************************************************************************)
\* int(x) of a float64: truncation toward zero
IntOf(halves) == IF halves >= 0 THEN halves \div 2 ELSE -((-halves) \div 2)

\* OptionalParam[T]: the zero value when absent, an error for another type
OptionalParam(a, kind, zero) ==
    IF a.kind = "absent" THEN [err |-> "", val |-> zero]
    ELSE IF a.kind # kind THEN [err |-> "parameter is not of type", val |-> zero]
    ELSE [err |-> "", val |-> a.val]

\* perPage after lines 121-123 and 139-144
ClampPerPage(perPage) ==
    LET defaulted == IF perPage = 0 THEN 2 * MaxPerPage ELSE perPage
        capped    == IF defaulted > 2 * MaxPerPage THEN 2 * MaxPerPage ELSE defaulted
    IN  IF capped <= 0 THEN 2 * MaxPerPage ELSE capped

\* page after lines 129-131 and 145-147
ClampPage(page) ==
    LET defaulted == IF page = 0 THEN 2 ELSE page
    IN  IF defaulted <= 0 THEN 2 ELSE defaulted

\* an entry of the directory tree, in the order filepath.WalkDir visits it
DirEntry(elems) == [elems |-> elems, isDir |-> TRUE]
FileEntry(elems) == [elems |-> elems, isDir |-> FALSE]

SkippedDirNames ==
    {<<"n", "o", "d", "e", "_", "m", "o", "d", "u", "l", "e", "s">>, <<"v", "e", "n", "d", "o", "r">>, <<"_", "_", "p", "y", "c", "a", "c", "h", "e", "_", "_">>, <<"d", "i", "s", "t">>, <<"b", "u", "i", "l", "d">>}

\* the directory is left out with filepath.SkipDir
SkipsDir(name) == HasPrefix(name, <<".">>) \/ name \in SkippedDirNames

\* filepath.Base
Base(elems) == elems[Len(elems)]

\* strings.TrimPrefix(filepath.Ext(relPath), ".")
ExtOf(elems) ==
    LET name == Base(elems)
        dots == {i \in 1..Len(name) : name[i] = "."}
    IN  IF dots = {} THEN <<>>
        ELSE SubSeq(name, (CHOOSE i \in dots : \A j \in dots : j <= i) + 1, Len(name))

\* filepath.WalkDir reaches an entry unless the callback answered
\* filepath.SkipDir for one of the directories above it
Reached(e) == \A k \in 1..(Len(e.elems) - 1) : ~SkipsDir(e.elems[k])

\* the callback appends the entry's relative path to allFiles
Listed(e, extension) ==
    /\ Reached(e)
    /\ ~e.isDir
    /\ ~HasPrefix(Base(e.elems), <<".">>)
    /\ extension = <<>> \/ ExtOf(e.elems) = extension

\* allFiles after filepath.WalkDir over the entries
WalkDir(entries, extension) ==
    LET Keep(e) == Listed(e, extension)
        kept    == SelectSeq(entries, Keep)
    IN  [i \in 1..Len(kept) |-> Join(kept[i].elems, <<"/">>)]

ListError(text) == [isError |-> TRUE, message |-> text, panicked |-> FALSE, files |-> <<>>]

\* a slice expression with a negative bound panics
ListPanic == [isError |-> FALSE, message |-> "", panicked |-> TRUE, files |-> <<>>]

ListResult(files) == [isError |-> FALSE, message |-> "", panicked |-> FALSE, files |-> files]

handleGetFileList(args) ==
    LET perPageParam == OptionalParam(args.per_page, "number", 0)
        pageParam    == OptionalParam(args.page, "number", 0)
        extension    == OptionalParam(args.extension, "string", <<>>)
    IN  IF perPageParam.err # "" THEN ListError(perPageParam.err)
        ELSE IF pageParam.err # "" THEN ListError(pageParam.err)
        ELSE IF extension.err # "" THEN ListError(extension.err)
        ELSE
            LET perPage  == ClampPerPage(perPageParam.val)
                page     == ClampPage(pageParam.val)
                allFiles == WalkDir(args.tree, extension.val)
                start    == (IntOf(page) - 1) * IntOf(perPage)
                end      == start + IntOf(perPage)
            IN  IF start >= Len(allFiles) THEN ListResult(<<>>)
                ELSE IF start < 0 THEN ListPanic
                ELSE ListResult(SubSeq(allFiles, start + 1,
                                       IF end > Len(allFiles) THEN Len(allFiles) ELSE end))

(***************************************************************************)
(* Inputs of get_file_list: a repository tree with a number of generated   *)
(* source files, and the page, per_page and extension arguments.           *)
(***************************************************************************)
DigitChars == <<"0", "1", "2", "3", "4", "5", "6", "7", "8", "9">>

\* f000.py, f001.py, ...
GeneratedName(i) ==
    <<"f", DigitChars[((i \div 100) % 10) + 1], DigitChars[((i \div 10) % 10) + 1],
      DigitChars[(i % 10) + 1], ".", "p", "y">>

TreeBefore ==
    << DirEntry(<<<<".", "g", "i", "t">>>>),
       FileEntry(<<<<".", "g", "i", "t">>, <<"c", "o", "n", "f", "i", "g">>>>),
       FileEntry(<<<<".", "h", "i", "d", "d", "e", "n">>>>),
       FileEntry(<<<<"a", ".", "p", "y">>>>),
       FileEntry(<<<<"b", ".", "j", "s">>>>) >>

TreeAfter ==
    << DirEntry(<<<<"n", "o", "d", "e", "_", "m", "o", "d", "u", "l", "e", "s">>>>),
       FileEntry(<<<<"n", "o", "d", "e", "_", "m", "o", "d", "u", "l", "e", "s">>, <<"x", ".", "j", "s">>>>),
       DirEntry(<<<<"s", "r", "c">>>>),
       FileEntry(<<<<"s", "r", "c">>, <<".", "e", "n", "v">>>>),
       FileEntry(<<<<"s", "r", "c">>, <<"c", ".", "p", "y">>>>) >>

Tree(extra) ==
    TreeBefore \o [i \in 1..extra |-> FileEntry(<<GeneratedName(i - 1)>>)] \o TreeAfter

ExtraFileCounts == (0..MaxExtraFiles) \cup {MaxPerPage + k : k \in 0..MaxExtraFiles}

Trees == {Tree(n) : n \in ExtraFileCounts}

NumberValue(halves) == [kind |-> "number", val |-> halves]

\* -1, 0, 0.5, 1, 1.5, 2, 100, 100.5, 101
PerPageArgs ==
    {AbsentArg(0), StringArg(0)}
        \cup {NumberValue(h) : h \in {-2, 0, 1, 2, 3, 4, 200, 201, 202}}

\* -1, 0, 0.5, 1, 1.5, 2, 3
PageArgs ==
    {AbsentArg(0), StringArg(0)} \cup {NumberValue(h) : h \in {-2, 0, 1, 2, 3, 4, 6}}

ExtensionArgs == {AbsentArg(<<>>), StringArg(<<"p", "y">>), StringArg(<<"j", "s">>)}

InitList ==
    /\ pc = "ready"
    /\ call = "get_file_list"
    /\ arg \in [per_page : PerPageArgs, page : PageArgs, extension : ExtensionArgs,
                tree : Trees]
    /\ ret = ListResult(<<>>)

HandleGetFileList ==
    /\ pc = "ready"
    /\ call = "get_file_list"
    /\ ret' = handleGetFileList(arg)
    /\ pc' = "done"
    /\ UNCHANGED <<call, arg>>

NextList == HandleGetFileList

SpecList == InitList /\ [][NextList]_vars

IsWhole(halves) == halves % 2 = 0

\* elements of indices [from, to) (0-based) of a sequence
ElementsBetween(seq, from, to) ==
    SubSeq(seq, from + 1, IF to > Len(seq) THEN Len(seq) ELSE to)

\* C12: for every numeric page and per_page the effective page is at least 1
\* and the effective page size is in 1..100 (the given values when they are
\* whole numbers in those ranges); the result holds the elements of the walk
\* order at indices [(page-1)*size, page*size), so it has at most 100 entries
\* and at least one when the sequence has an element at its start offset.
C12_PaginationClamped ==
    (/\ Done("get_file_list")
     /\ arg.per_page.kind \in {"absent", "number"}
     /\ arg.page.kind \in {"absent", "number"})
    =>
        LET all == WalkDir(arg.tree, arg.extension.val) IN
        /\ ~ret.isError
        /\ ~ret.panicked
        /\ Len(ret.files) <= MaxPerPage
        /\ \E page \in 1..(Len(all) + 1), size \in 1..MaxPerPage :
               /\ (arg.page.kind = "number" /\ IsWhole(arg.page.val)
                       /\ arg.page.val \div 2 \in 1..(Len(all) + 1))
                      => page = arg.page.val \div 2
               /\ (arg.per_page.kind = "number" /\ IsWhole(arg.per_page.val)
                       /\ arg.per_page.val \div 2 \in 1..MaxPerPage)
                      => size = arg.per_page.val \div 2
               /\ ret.files = ElementsBetween(all, (page - 1) * size, page * size)

(***************************************************************************)
(* Documentation of JS/TS declarations                                     *)
(***************************************************************************)
ExtractedBy(language) ==
    /\ Done("extract_signatures")
    /\ ~ret.isError
    /\ arg.language.val = language

\* the 0-based indices of the lines for which the scanner appends a record
JsHeaders(lines) == {i \in 0..(Len(lines) - 1) : JsScanLine(lines, i) # <<>>}

\* the k-th smallest element of a set of indices
NthIndex(indices, k) ==
    CHOOSE i \in indices : Cardinality({j \in indices : j < i}) = k - 1

OpensBlockComment(line) == HasPrefix(TrimSpace(line), <<"/", "*", "*">>)

InsideBlockComment(line) ==
    TrimSpace(line) = <<>> \/ HasPrefix(TrimSpace(line), <<"*">>)

\* line j opens a block comment that reaches down to the header at line h
CommentOpenedAt(lines, j, h) ==
    /\ j < h
    /\ OpensBlockComment(lines[j + 1])
    /\ \A m \in (j + 1)..(h - 1) : InsideBlockComment(lines[m + 1])

HasBlockComment(lines, h) == \E j \in 0..(h - 1) : CommentOpenedAt(lines, j, h)

\* the text a comment line carries: the line without its comment markers
CommentLineText(line) ==
    LET t    == TrimSpace(line)
        body == IF HasPrefix(t, <<"/", "*", "*">>) THEN SubSeq(t, 4, Len(t))
                ELSE IF HasPrefix(t, <<"*", "/">>) THEN SubSeq(t, 3, Len(t))
                ELSE IF HasPrefix(t, <<"*">>) THEN SubSeq(t, 2, Len(t))
                ELSE t
    IN  TrimSpace(TrimSuffix(TrimSpace(body), <<"*", "/">>))

NonEmpty(s) == s # <<>>

\* the text of the block comment above the header at line h
CommentText(lines, h) ==
    LET j     == CHOOSE j \in 0..(h - 1) : CommentOpenedAt(lines, j, h)
        texts == [m \in 1..(h - j) |-> CommentLineText(lines[j + m])]
    IN  Join(SelectSeq(texts, NonEmpty), <<" ">>)

JsLanguages == {"javascript", "typescript"}

\* C13: the description of a JS/TS record whose header is preceded by a block
\* comment opened by a line starting with "/**" (closed on that line or on a
\* later one, blank lines allowed) is the comment's text, the trimmed contents
\* of its lines joined earliest first; so it is non-empty when the comment
\* contains text.
C13_JSDocDescription ==
    \A language \in JsLanguages :
        ExtractedBy(language) =>
            LET lines == SourceLines(arg.code.val) IN
            \A k \in 1..Len(ret.signatures) :
                LET h == NthIndex(JsHeaders(lines), k) IN
                HasBlockComment(lines, h) =>
                    ret.signatures[k].description = CommentText(lines, h)

\* C16: in the JS/TS backward scan a line that is neither blank nor part of a
\* comment ends the scan with no comment found: when the lines above a header
\* do not form a block opened by a "/**" line, the description is empty.
C16_NoCommentWithoutOpener ==
    \A language \in JsLanguages :
        ExtractedBy(language) =>
            LET lines == SourceLines(arg.code.val) IN
            \A k \in 1..Len(ret.signatures) :
                LET h == NthIndex(JsHeaders(lines), k) IN
                ~HasBlockComment(lines, h) =>
                    ret.signatures[k].description = <<>>

(***************************************************************************)
(* Documentation of Python declarations                                    *)
(***************************************************************************)
PyHeaders(lines) == {i \in 0..(Len(lines) - 1) : PyScanLine(lines, i) # <<>>}

TripleQuotes == {<<"\"", "\"", "\"">>, <<"'", "'", "'">>}

BeginsTripleQuoted(line) == \E q \in TripleQuotes : HasPrefix(TrimSpace(line), q)

\* the source text that follows the opening quotes of the line of index n
AfterOpeningQuotes(lines, n) ==
    LET t == TrimSpace(lines[n + 1])
    IN  Join(<<SubSeq(t, 4, Len(t))>> \o SubSeq(lines, n + 2, Len(lines)), <<"\n">>)

OpeningQuotes(lines, n) == SubSeq(TrimSpace(lines[n + 1]), 1, 3)

\* the string that begins on the line of index n is closed
StringCloses(lines, n) == Contains(AfterOpeningQuotes(lines, n), OpeningQuotes(lines, n))

\* the text between the opening quotes and the first closing quotes
EnclosedText(lines, n) ==
    LET body == AfterOpeningQuotes(lines, n)
    IN  TrimSpace(SubSeq(body, 1, Index(body, OpeningQuotes(lines, n))))

\* C14: the description of a Python record is the text enclosed by the
\* triple-quoted string that begins on the line right after the header,
\* closed on that line or on a later one, trimmed and without any text after
\* the closing quotes; it is empty when that line does not begin with a
\* triple quote or does not exist.
C14_PythonDocstring ==
    ExtractedBy("python") =>
        LET lines == SourceLines(arg.code.val) IN
        \A k \in 1..Len(ret.signatures) :
            LET n == NthIndex(PyHeaders(lines), k) + 1 IN
            IF n >= Len(lines) \/ ~BeginsTripleQuoted(lines[n + 1])
            THEN ret.signatures[k].description = <<>>
            ELSE StringCloses(lines, n) =>
                     ret.signatures[k].description = EnclosedText(lines, n)

(***************************************************************************)
(* Order of the records                                                    *)
(***************************************************************************)
\* the elements of sub occur in seq in the same order, at increasing positions
RECURSIVE IsSubsequence(_, _)
IsSubsequence(sub, seq) ==
    IF sub = <<>> THEN TRUE
    ELSE IF seq = <<>> THEN FALSE
    ELSE IF Head(sub) = Head(seq) THEN IsSubsequence(Tail(sub), Tail(seq))
    ELSE IsSubsequence(sub, Tail(seq))

Occurrences(seq, x) == Cardinality({i \in 1..Len(seq) : seq[i] = x})

TrimmedLines(code) ==
    LET lines == SourceLines(code) IN [i \in 1..Len(lines) |-> TrimSpace(lines[i])]

SignaturesOf(records) == [i \in 1..Len(records) |-> records[i].signature]

\* C15: for both scanners the records appear in the order of their header
\* lines in the source, each from a line strictly after the line of the record
\* before it, and a header repeated on several lines yields one record per
\* line: nothing is reordered or deduplicated.
C15_RecordOrder ==
    \A language \in SupportedLanguages :
        ExtractedBy(language) =>
            LET headers == SignaturesOf(ret.signatures)
                lines   == TrimmedLines(arg.code.val)
            IN  /\ IsSubsequence(headers, lines)
                /\ \A k \in 1..Len(headers) :
                       Occurrences(headers, headers[k]) = Occurrences(lines, headers[k])

C15_Witness ==
    /\ ExtractedBy("python")
    /\ Len(ret.signatures) = 3
    /\ ret.signatures[1] = ret.signatures[3]
    /\ ret.signatures[1].name # ret.signatures[2].name

\* C17: for both normalizers and any raw parameter string, every element of
\* requiredParameters is a non-empty name that is a key of properties, and no
\* name occurs in requiredParameters more than once.
C17_RequiredConsistent ==
    (pc = "done" /\ call \in {"parsePythonParameters", "parseJavaScriptParameters"}) =>
        LET required == ret.required
            props    == ret.parameters.properties
        IN  \A i \in 1..Len(required) :
                /\ required[i] # <<>>
                /\ required[i] \in DOMAIN props
                /\ \A j \in 1..Len(required) : required[j] = required[i] => j = i

====
